---- MODULE Spec2Model ----
(***************************************************************************)
(* A model of src/src/utils.ts: the retrying request loop (makeRequest),   *)
(* the session-token broker (getSessionToken, promptForToken,              *)
(* isTokenValid), the challenge clock (getNextChallengeStart,              *)
(* getPrevChallengeStart, getCurrentChallengeStartTime) and the template   *)
(* command interpolation (buildCommand).                                   *)
(*                                                                         *)
(* Units.  The clock `now` is Date.now() in whole seconds since the epoch  *)
(* (the model's integers are 32 bits wide, epoch milliseconds do not fit); *)
(* every instant the model reads is a whole second.  The durations of the  *)
(* retry loop (currentWait, timeOfLastRequest, the sleep) are in           *)
(* milliseconds.  BACKOFF_RATE = 1.1 is the fraction 11/10 and the product *)
(* is rounded down to a whole millisecond.                                 *)
(*                                                                         *)
(* Strings that the code takes apart (the template command) are sequences  *)
(* of one-character strings; opaque strings (tokens, response bodies,      *)
(* account names) are TLA+ strings.                                        *)
(***************************************************************************)
EXTENDS Integers, Sequences, FiniteSets, TLC

VARIABLES
    now,        \* Date.now(), seconds since the epoch
    calls,      \* makeRequest: the locals of each call, by call id
    store,      \* keytar: account -> stored token, or NoToken
    session,    \* getSessionToken: the locals of the call and what it did
    clock,      \* the last challenge-clock operation and its result
    command     \* buildCommand: the input and the outcome

vars == <<now, calls, store, session, clock, command>>

Min(a, b) == IF a < b THEN a ELSE b
Max(a, b) == IF a > b THEN a ELSE b

(***************************************************************************)
(* Bounds of the model.                                                    *)
(***************************************************************************)
MaxAttempts == 40       \* attempts of one makeRequest call
MaxStarts == 2          \* makeRequest calls started one after the other
MaxElapsed == 1         \* seconds that pass while the model's requests are in flight
FirstYear == 2023       \* the clock's years are FirstYear..LastYear
LastYear == 2024
MaxPieces == 3          \* pieces a template command is put together from
MaxPrompts == 3         \* prompts of one promptForToken call
MaxInFlight == 3        \* attempts of each of the calls in flight at once

(***************************************************************************)
(* Program constants.                                                      *)
(***************************************************************************)
BACKOFF_RATE_NUM == 11
BACKOFF_RATE_DEN == 10
BACKOFF_INITIAL == 1000
BACKOFF_MAX == 30000
TIMEOUT_FLOOR == 5000
DECEMBER == 11
RELEASE_HOUR == 5
FIRST_DAY == 1
LAST_DAY == 25
DEFAULT_MARGIN == 82800
FIRST_YEAR == 2015

(***************************************************************************)
(* The calendar: Date.UTC and the getUTC* accessors, on seconds.           *)
(***************************************************************************)
SecondsPerDay == 24 * 60 * 60

\* Days from 1970-01-01 to the first day of month `month` (0 = January) of `year`,
\* plus day - 1: Date.UTC lets the day run over the month's end (or under its start).
DaysFromCivil(year, month, day) ==
    LET m == month + 1
        y == IF m <= 2 THEN year - 1 ELSE year
        era == y \div 400
        yoe == y - era * 400
        mp == IF m > 2 THEN m - 3 ELSE m + 9
        doy == (153 * mp + 2) \div 5
        doe == yoe * 365 + yoe \div 4 - yoe \div 100 + doy
    IN  era * 146097 + doe - 719468 + (day - 1)

\* Date.UTC(year, month, day, hours, 0, 0, 0), in seconds
DateUTC(year, month, day, hours) ==
    DaysFromCivil(year, month, day) * SecondsPerDay + hours * 3600

\* The civil date of the day `z` days after 1970-01-01
CivilFromDays(z) ==
    LET s == z + 719468
        era == s \div 146097
        doe == s - era * 146097
        yoe == (doe - doe \div 1460 + doe \div 36524 - doe \div 146096) \div 365
        doy == doe - (365 * yoe + yoe \div 4 - yoe \div 100)
        mp == (5 * doy + 2) \div 153
        d == doy - (153 * mp + 2) \div 5 + 1
        m == IF mp < 10 THEN mp + 3 ELSE mp - 9
    IN  [year |-> IF m <= 2 THEN yoe + era * 400 + 1 ELSE yoe + era * 400,
         month |-> m - 1,
         date |-> d]

getUTCFullYear(t) == CivilFromDays(t \div SecondsPerDay).year
getUTCMonth(t) == CivilFromDays(t \div SecondsPerDay).month
getUTCDate(t) == CivilFromDays(t \div SecondsPerDay).date
getUTCHours(t) == (t % SecondsPerDay) \div 3600

(***************************************************************************)
(* makeRequest (lines 83-119).                                             *)
(***************************************************************************)
CallIds == {1, 2}

\* What one HTTP attempt can come to: a transport-level failure (connection error,
\* timeout; no response), or a final response with a status and a body.  A final
\* response has a status of 200 or more (1xx responses are interim), and its body
\* is the text that res.data.toString() gives.
Statuses == {200, 299, 300, 404, 499, 500, 503}
Bodies == {"ok", "Not Found"}
NoText == "<none>"
TransportFailure == [kind |-> "transport", status |-> 0, body |-> NoText]
Response(status, body) == [kind |-> "response", status |-> status, body |-> body]
Outcomes ==
    {TransportFailure}
    \cup {Response(s, b) : s \in {x \in Statuses : x < 500}, b \in Bodies}
    \cup {Response(s, "Unavailable") : s \in {x \in Statuses : x >= 500}}
NoOutcome == [kind |-> "none", status |-> 0, body |-> NoText]

\* The instant the model's request calls begin at.
RequestEpoch == DateUTC(FirstYear, DECEMBER, FIRST_DAY, RELEASE_HOUR)

\* The whole seconds one attempt can take: none (it fails or answers within the
\* second) or one, while the model's clock has not run MaxElapsed seconds.
Durations == IF now < RequestEpoch + MaxElapsed THEN {0, 1} ELSE {0}

\* axios's validateStatus when the request config gives none (makeRequest gives none):
\* the promise resolves for a 2xx status and rejects for every other status.
DefaultValidateStatus(status) == status >= 200 /\ status < 300

\* validateStatus: () => true (isTokenValid, line 34)
AnyStatus(status) == TRUE

\* await axios(config) in makeRequest: the promise resolves with the response when
\* there is one and validateStatus accepts its status; it rejects (the catch block
\* runs) on a transport failure and on a status validateStatus refuses.
RequestResolves(o) == o.kind = "response" /\ DefaultValidateStatus(o.status)

IdleCall ==
    [pc |-> "idle", run |-> 0, timeOfLastRequest |-> 0, currentWait |-> 0,
     attempts |-> 0, warnings |-> 0, retryable |-> 0, refused |-> FALSE,
     outcome |-> NoOutcome,
     warned |-> FALSE, wanted |-> 0, slept |-> 0, issuedAt |-> 0, gap |-> 0,
     timeout |-> 0, result |-> NoText, error |-> NoText]

\* let timeOfLastRequest = 0; let currentWait = BACKOFF_INITIAL (lines 85-86)
NewCall(previous) ==
    [IdleCall EXCEPT !.pc = "loop", !.run = previous.run + 1,
                     !.timeOfLastRequest = 0, !.currentWait = BACKOFF_INITIAL]

\* Date.now() - timeOfLastRequest in milliseconds (line 88), cut off at twice
\* BACKOFF_MAX, which is beyond every value it is compared with.
timeSinceLastRequest(call) ==
    LET seconds == now - (call.timeOfLastRequest \div 1000)
    IN  IF seconds >= (2 * BACKOFF_MAX) \div 1000
        THEN 2 * BACKOFF_MAX
        ELSE seconds * 1000 - (call.timeOfLastRequest % 1000)

\* The milliseconds the loop sleeps before an attempt (line 89)
SleepBeforeAttempt(call) ==
    IF timeSinceLastRequest(call) < call.currentWait
    THEN call.currentWait - timeSinceLastRequest(call)
    ELSE 0

\* A variant of NextWait that leaves out the cap.
NextWaitUncapped(currentWait) ==
    (currentWait * BACKOFF_RATE_NUM) \div BACKOFF_RATE_DEN

\* Math.min(currentWait * BACKOFF_RATE, BACKOFF_MAX) (line 90)
NextWait(currentWait) ==
    Min((currentWait * BACKOFF_RATE_NUM) \div BACKOFF_RATE_DEN, BACKOFF_MAX)

\* A variant of AttemptTimeout that takes 5000 for a ceiling.
AttemptTimeoutCeiling(currentWait) == Min(TIMEOUT_FLOOR, currentWait)

\* timeout: Math.max(5000, currentWait) (line 102)
AttemptTimeout(currentWait) == Max(TIMEOUT_FLOOR, currentWait)

\* The claims' word for an outcome the loop is meant to retry.
Retryable(o) == o.kind = "transport" \/ (o.kind = "response" /\ o.status >= 500)

\* The claims' word for a response the call is meant to fail on at once.
Refused(o) == o.kind = "response" /\ o.status >= 300 /\ o.status < 500

\* The whole seconds a sleep of ms milliseconds lasts at least
SleepSeconds(ms) == (ms + 999) \div 1000

\* A variant of AfterAttempt whose catch block continues without a warning.
AfterAttemptSilentCatch(call, o) ==
    IF ~RequestResolves(o)
    THEN call
    ELSE IF o.status >= 500
    THEN [call EXCEPT !.warnings = @ + 1, !.warned = TRUE]
    ELSE IF o.status >= 300
    THEN [call EXCEPT !.pc = "failed", !.error = o.body, !.warned = FALSE]
    ELSE [call EXCEPT !.pc = "returned", !.result = o.body, !.warned = FALSE]

\* What the loop does once the attempt has come to outcome o (lines 105-117)
AfterAttempt(call, o) ==
    IF ~RequestResolves(o)
    THEN \* catch (err): warn and continue
         [call EXCEPT !.warnings = @ + 1, !.warned = TRUE]
    ELSE IF o.status >= 500
    THEN [call EXCEPT !.warnings = @ + 1, !.warned = TRUE]
    ELSE IF o.status >= 300
    THEN [call EXCEPT !.pc = "failed", !.error = o.body, !.warned = FALSE]
    ELSE [call EXCEPT !.pc = "returned", !.result = o.body, !.warned = FALSE]

\* One iteration of the while loop: the wait, the backoff update, the request.
Iteration(call, o) ==
    LET sleep == SleepBeforeAttempt(call)
        issued == now + SleepSeconds(sleep)
        wait == NextWait(call.currentWait)
        attempted ==
            [call EXCEPT !.currentWait = wait,
                         !.attempts = @ + 1,
                         !.retryable = IF Retryable(o) THEN @ + 1 ELSE @,
                         !.refused = @ \/ Refused(o),
                         !.outcome = o,
                         !.wanted = call.currentWait,
                         !.slept = sleep,
                         !.gap = issued - call.issuedAt,
                         !.issuedAt = issued,
                         !.timeout = AttemptTimeout(wait)]
    IN  AfterAttempt(attempted, o)

StartRequest(c) ==
    /\ calls[c].pc \in {"idle", "returned", "failed"}
    /\ calls[c].run < MaxStarts
    /\ calls' = [calls EXCEPT ![c] = NewCall(calls[c])]
    /\ UNCHANGED <<now, store, session, clock, command>>

\* A variant of Attempt whose currentWait is one variable shared by all the calls.
AttemptSharedWait(c) ==
    /\ calls[c].pc = "loop"
    /\ calls[c].attempts < MaxAttempts
    /\ \E o \in Outcomes, d \in Durations :
          /\ calls' = [x \in CallIds |->
                          IF x = c
                          THEN Iteration(calls[c], o)
                          ELSE [calls[x] EXCEPT
                                   !.currentWait = NextWait(calls[c].currentWait)]]
          /\ now' = now + SleepSeconds(SleepBeforeAttempt(calls[c])) + d
    /\ UNCHANGED <<store, session, clock, command>>

\* One iteration of the loop of call c (lines 87-118)
Attempt(c) ==
    /\ calls[c].pc = "loop"
    /\ calls[c].attempts < MaxAttempts
    /\ \E o \in Outcomes, d \in Durations :
          /\ calls' = [calls EXCEPT ![c] = Iteration(calls[c], o)]
          /\ now' = now + SleepSeconds(SleepBeforeAttempt(calls[c])) + d
    /\ UNCHANGED <<store, session, clock, command>>


(***************************************************************************)
(* The challenge clock (lines 126-156).                                    *)
(***************************************************************************)
\* A variant of getNextChallengeStart that moves to the next day only after the
\* release hour has ended.
getNextChallengeStartAfterHour(t) ==
    LET curYear == getUTCFullYear(t)
        firstChallengeOfYear == DateUTC(curYear, DECEMBER, FIRST_DAY, RELEASE_HOUR)
        lastChallengeOfYear == DateUTC(curYear, DECEMBER, LAST_DAY, RELEASE_HOUR)
        firstChallengeOfNextYear ==
            DateUTC(curYear + 1, DECEMBER, FIRST_DAY, RELEASE_HOUR)
    IN  IF t < firstChallengeOfYear THEN firstChallengeOfYear
        ELSE IF t > lastChallengeOfYear THEN firstChallengeOfNextYear
        ELSE DateUTC(curYear, DECEMBER,
                     getUTCDate(t) + (IF getUTCHours(t) > RELEASE_HOUR THEN 1 ELSE 0),
                     RELEASE_HOUR)

\* getNextChallengeStart with `t` for new Date() (lines 126-137)
getNextChallengeStart(t) ==
    LET curYear == getUTCFullYear(t)
        firstChallengeOfYear == DateUTC(curYear, DECEMBER, FIRST_DAY, RELEASE_HOUR)
        lastChallengeOfYear == DateUTC(curYear, DECEMBER, LAST_DAY, RELEASE_HOUR)
        firstChallengeOfNextYear ==
            DateUTC(curYear + 1, DECEMBER, FIRST_DAY, RELEASE_HOUR)
    IN  IF t < firstChallengeOfYear THEN firstChallengeOfYear
        ELSE IF t > lastChallengeOfYear THEN firstChallengeOfNextYear
        ELSE DateUTC(curYear, DECEMBER,
                     getUTCDate(t) + (IF getUTCHours(t) >= RELEASE_HOUR THEN 1 ELSE 0),
                     RELEASE_HOUR)

\* A variant of getPrevChallengeStart that still steps a day back at the release hour.
getPrevChallengeStartThroughHour(t) ==
    LET curYear == getUTCFullYear(t)
        firstChallengeOfYear == DateUTC(curYear, DECEMBER, FIRST_DAY, RELEASE_HOUR)
        lastChallengeOfYear == DateUTC(curYear, DECEMBER, LAST_DAY, RELEASE_HOUR)
        lastChallengeOfLastYear ==
            DateUTC(curYear + 1, DECEMBER, FIRST_DAY, RELEASE_HOUR)
    IN  IF t < firstChallengeOfYear THEN lastChallengeOfLastYear
        ELSE IF t > lastChallengeOfYear THEN lastChallengeOfYear
        ELSE DateUTC(curYear, DECEMBER,
                     getUTCDate(t) - (IF getUTCHours(t) <= RELEASE_HOUR THEN 1 ELSE 0),
                     RELEASE_HOUR)

\* getPrevChallengeStart with `t` for new Date() (lines 139-150)
getPrevChallengeStart(t) ==
    LET curYear == getUTCFullYear(t)
        firstChallengeOfYear == DateUTC(curYear, DECEMBER, FIRST_DAY, RELEASE_HOUR)
        lastChallengeOfYear == DateUTC(curYear, DECEMBER, LAST_DAY, RELEASE_HOUR)
        lastChallengeOfLastYear ==
            DateUTC(curYear + 1, DECEMBER, FIRST_DAY, RELEASE_HOUR)
    IN  IF t < firstChallengeOfYear THEN lastChallengeOfLastYear
        ELSE IF t > lastChallengeOfYear THEN lastChallengeOfYear
        ELSE DateUTC(curYear, DECEMBER,
                     getUTCDate(t) - (IF getUTCHours(t) < RELEASE_HOUR THEN 1 ELSE 0),
                     RELEASE_HOUR)

\* getCurrentChallengeStartTime(margin) with `t` for the clock (lines 152-156);
\* margin is in seconds
getCurrentChallengeStartTime(t, margin) ==
    LET next == getNextChallengeStart(t)
        prev == getPrevChallengeStart(t)
    IN  IF t - prev < margin THEN prev ELSE next

\* A variant of getCurrentDay that takes December 25 for the end of the season.
getCurrentDayThrough24(t) ==
    IF getUTCMonth(t) # DECEMBER
    THEN [threw |-> TRUE, message |-> "Advent of Code has not started yet", day |-> 0]
    ELSE IF getUTCDate(t) >= LAST_DAY
    THEN [threw |-> TRUE, message |-> "Advent of Code is over", day |-> 0]
    ELSE [threw |-> FALSE, message |-> NoText, day |-> getUTCDate(t)]

\* getCurrentDay with `t` for new Date() (lines 20-26): the day it returns or the
\* error it throws
getCurrentDay(t) ==
    IF getUTCMonth(t) # DECEMBER
    THEN [threw |-> TRUE, message |-> "Advent of Code has not started yet", day |-> 0]
    ELSE IF getUTCDate(t) > LAST_DAY
    THEN [threw |-> TRUE, message |-> "Advent of Code is over", day |-> 0]
    ELSE [threw |-> FALSE, message |-> NoText, day |-> getUTCDate(t)]

\* The instants the model reads the clock at: in every month but December the first
\* and the middle of the month, the end of February and of November; on every day
\* of December midnight, noon, the last second, and the seconds around the release
\* hour and around one hour before it (where the default margin ends).
Years == FirstYear .. LastYear
ClockInputs ==
    {DateUTC(y, m, d, h) : y \in Years, m \in 0 .. 10, d \in {1, 15, 29, 30}, h \in {0, 5, 12}}
    \cup {DateUTC(y, DECEMBER, d, RELEASE_HOUR) + offset :
            y \in Years, d \in 1 .. 31,
            offset \in {-18000, -3601, -3600, -1, 0, 1, 25200, 68399}}

\* The margins (seconds) getCurrentChallengeStartTime is called with.
Margins == {-1, 0, 1, 3600, DEFAULT_MARGIN, 86400, 100000}

IdleClock ==
    [op |-> "none", at |-> 0, margin |-> 0, prev |-> 0, next |-> 0, result |-> 0,
     day |-> 0, year |-> 0, threw |-> FALSE, message |-> NoText]

CallCurrentChallengeStartTime(margin) ==
    /\ clock' = [IdleClock EXCEPT
                    !.op = "current", !.at = now, !.margin = margin,
                    !.prev = getPrevChallengeStart(now),
                    !.next = getNextChallengeStart(now),
                    !.result = getCurrentChallengeStartTime(now, margin)]
    /\ UNCHANGED <<now, calls, store, session, command>>

\* getNextChallengeStart() is called
CallNextChallengeStart ==
    /\ clock' = [IdleClock EXCEPT !.op = "next", !.at = now,
                                  !.result = getNextChallengeStart(now)]
    /\ UNCHANGED <<now, calls, store, session, command>>

\* getPrevChallengeStart() is called
CallPrevChallengeStart ==
    /\ clock' = [IdleClock EXCEPT !.op = "prev", !.at = now,
                                  !.result = getPrevChallengeStart(now)]
    /\ UNCHANGED <<now, calls, store, session, command>>

\* A variant of getChallengeStartTime that takes December for month 12.
getChallengeStartTimeMonth12(year, day) == DateUTC(year, 12, day, RELEASE_HOUR)

\* getChallengeStartTime(year, day) (lines 158-159)
getChallengeStartTime(year, day) == DateUTC(year, DECEMBER, day, RELEASE_HOUR)

\* A variant of validateDayAndYear that refuses the year 2015 too.
validateDayAndYearAfterFirstYear(day, year) ==
    IF day < FIRST_DAY \/ day > LAST_DAY
    THEN [threw |-> TRUE, message |-> "day must be between 1 and 25"]
    ELSE IF year <= FIRST_YEAR
    THEN [threw |-> TRUE, message |-> "year must be 2015 or greater"]
    ELSE [threw |-> FALSE, message |-> NoText]

\* validateDayAndYear(day, year) (lines 121-124): the error it throws, if any
validateDayAndYear(day, year) ==
    IF day < FIRST_DAY \/ day > LAST_DAY
    THEN [threw |-> TRUE, message |-> "day must be between 1 and 25"]
    ELSE IF year < FIRST_YEAR
    THEN [threw |-> TRUE, message |-> "year must be 2015 or greater"]
    ELSE [threw |-> FALSE, message |-> NoText]

\* The days and years the two operations are called with.
DayInputs == -1 .. LAST_DAY + 2
YearInputs == (FIRST_YEAR - 2) .. (LastYear + 1)

CallChallengeStartTime(year, day) ==
    /\ clock' = [IdleClock EXCEPT !.op = "start", !.at = now, !.year = year,
                                  !.day = day,
                                  !.result = getChallengeStartTime(year, day)]
    /\ UNCHANGED <<now, calls, store, session, command>>

CallValidateDayAndYear(day, year) ==
    /\ LET out == validateDayAndYear(day, year)
       IN  clock' = [IdleClock EXCEPT !.op = "validate", !.at = now, !.year = year,
                                      !.day = day, !.threw = out.threw,
                                      !.message = out.message]
    /\ UNCHANGED <<now, calls, store, session, command>>

CallGetCurrentDay ==
    /\ LET out == getCurrentDay(now)
       IN  clock' = [IdleClock EXCEPT !.op = "day", !.at = now, !.threw = out.threw,
                                      !.message = out.message, !.result = out.day]
    /\ UNCHANGED <<now, calls, store, session, command>>

LaterInputs(t) == {u \in ClockInputs : u > t}

\* Time passes: the clock is read next at the following instant of ClockInputs.
Tick ==
    /\ LaterInputs(now) # {}
    /\ now' = CHOOSE t \in LaterInputs(now) : \A u \in LaterInputs(now) : t <= u
    /\ clock' = IdleClock
    /\ UNCHANGED <<calls, store, session, command>>

(***************************************************************************)
(* buildCommand (lines 172-178).  Strings are sequences of characters.     *)
(***************************************************************************)
Echo == <<"e", "c", "h", "o", " ">>
Src == <<"s", "r", "c">>
Unknown == <<"u", "n", "k", "n", "o", "w", "n">>
MainGo == <<"m", "a", "i", "n", ".", "g", "o">>
Work == <<"w">>
Day == <<"0", "1">>

\* The pieces the model's template commands are put together from, and the commands.
Pieces ==
    {Echo, <<"{">> \o Src \o <<"}">>, <<"{">> \o Unknown \o <<"}">>,
     <<"{">>, <<"}">>, <<"-">>}

RECURSIVE Concat(_)
Concat(pieces) ==
    IF pieces = <<>> THEN <<>> ELSE Head(pieces) \o Concat(Tail(pieces))

Commands ==
    {Concat(ps) : ps \in UNION {[1 .. n -> Pieces] : n \in 0 .. MaxPieces}}

\* Absolute paths are sequences of segments: process.cwd() and srcPath.
Cwds == {<<Work>>, <<Work, Day>>}
SrcPaths == {<<Work, MainGo>>, <<Work, Day, MainGo>>, <<MainGo>>}

RECURSIVE CommonLength(_, _)
CommonLength(a, b) ==
    IF a = <<>> \/ b = <<>> \/ Head(a) # Head(b)
    THEN 0
    ELSE 1 + CommonLength(Tail(a), Tail(b))

RECURSIVE Join(_)
Join(segments) ==
    IF segments = <<>> THEN <<>>
    ELSE IF Len(segments) = 1 THEN Head(segments)
    ELSE Head(segments) \o <<"/">> \o Join(Tail(segments))

\* path.relative(from, to) (line 173): a ".." for every segment of `from` below
\* the common ancestor, then the segments of `to` below it.
PathRelative(from, to) ==
    LET common == CommonLength(from, to)
        up == [i \in 1 .. (Len(from) - common) |-> <<".", ".">>]
    IN  Join(up \o SubSeq(to, common + 1, Len(to)))

\* String(n) for a number n >= 0: its decimal digits
DigitChars == <<"0", "1", "2", "3", "4", "5", "6", "7", "8", "9">>
RECURSIVE NumberToString(_)
NumberToString(n) ==
    IF n < 10 THEN <<DigitChars[n + 1]>>
    ELSE NumberToString(n \div 10) \o <<DigitChars[(n % 10) + 1]>>

\* A JavaScript number as a value, and the property key a value names.
NumberValue(n) == [type |-> "number", chars |-> <<>>, number |-> n]
ToPropertyKey(v) == IF v.type = "number" THEN NumberToString(v.number) ELSE v.chars

\* The position of the first "}" of s at or after position j, 0 when there is none.
RECURSIVE FirstClose(_, _)
FirstClose(s, j) ==
    IF j > Len(s) THEN 0
    ELSE IF s[j] = "}" THEN j
    ELSE FirstClose(s, j + 1)

\* /\{([^}]+)\}/ matches at position i of s: a "{", one or more characters that are
\* not "}", and a "}".
MatchesAt(s, i) == s[i] = "{" /\ FirstClose(s, i + 1) >= i + 2

\* The replacer (lines 174-177).  String.prototype.replace calls it with the match,
\* the captured group, the offset of the match and the whole string; the replacer
\* names its first three parameters _match, _i and key.
Replacer(variables, match, p1, offset) ==
    LET key == NumberValue(offset)
    IN  IF ToPropertyKey(key) \notin DOMAIN variables
        THEN [threw |-> TRUE, text |-> ToPropertyKey(key)]
        ELSE [threw |-> FALSE, text |-> variables[ToPropertyKey(key)]]

\* command.replace(regexp, replacer) from position i on (line 174): the text, or
\* the error the replacer threw (its message names `text`).
RECURSIVE ReplaceFrom(_, _, _)
ReplaceFrom(variables, s, i) ==
    IF i > Len(s) THEN [threw |-> FALSE, text |-> <<>>]
    ELSE IF MatchesAt(s, i)
    THEN LET close == FirstClose(s, i + 1)
             replaced == Replacer(variables, SubSeq(s, i, close),
                                  SubSeq(s, i + 1, close - 1), i - 1)
             rest == ReplaceFrom(variables, s, close + 1)
         IN  IF replaced.threw THEN replaced
             ELSE IF rest.threw THEN rest
             ELSE [threw |-> FALSE, text |-> replaced.text \o rest.text]
    ELSE LET rest == ReplaceFrom(variables, s, i + 1)
         IN  IF rest.threw THEN rest
             ELSE [threw |-> FALSE, text |-> <<s[i]>> \o rest.text]

\* buildCommand(command, srcPath) with cwd for process.cwd() (lines 172-178)
buildCommand(cmd, srcPath, cwd) ==
    LET variables == [k \in {Src} |-> PathRelative(cwd, srcPath)]
    IN  ReplaceFrom(variables, cmd, 1)

IdleCommand ==
    [pc |-> "idle", input |-> <<>>, srcPath |-> <<>>, cwd |-> <<>>,
     threw |-> FALSE, text |-> <<>>]

CallBuildCommand ==
    /\ command.pc = "called"
    /\ LET out == buildCommand(command.input, command.srcPath, command.cwd)
       IN  command' = [command EXCEPT !.pc = "done", !.threw = out.threw,
                                      !.text = out.text]
    /\ UNCHANGED <<now, calls, store, session, clock>>

(***************************************************************************)
(* The credential store (keytar) and getSessionToken (lines 30-72).        *)
(***************************************************************************)
NoToken == "<null>"
Accounts == {"_default", "alice"}
StoredTokens == {"tokA", "tokB"}

\* What the user can type at a prompt: inquirer's validate refuses the empty
\* string; its transformer changes what is shown, not the answer.
Inputs == {"tokA", "tokB", " tokA "}

\* The probe of isTokenValid: with validateStatus: () => true the promise resolves
\* for every response and rejects on a transport failure alone.
ProbeStatuses == {200, 299, 300, 401, 500}
ProbeOutcomes == {TransportFailure} \cup {Response(st, NoText) : st \in ProbeStatuses}
ProbeResolves(o) == o.kind = "response" /\ AnyStatus(o.status)

\* A variant of isTokenValid that takes status 300 for valid.
isTokenValidThrough300(o) == o.status <= 300

\* return res.status < 300 (line 36)
isTokenValid(o) == o.status < 300

IdleSession ==
    [pc |-> "idle", account |-> "_default", verifyToken |-> FALSE,
     token |-> NoToken, input |-> NoToken, result |-> NoToken, error |-> NoText,
     found |-> FALSE, prompts |-> 0, probes |-> 0, writes |-> 0,
     probe |-> NoOutcome, probed |-> NoToken,
     before |-> [a \in Accounts |-> NoToken],
     earlier |-> [account |-> "_default", token |-> NoToken]]

\* getSessionToken(account, verifyToken) is called
CallGetSessionToken(account, verifyToken) ==
    /\ session.pc \in {"idle", "returned", "failed"}
    /\ session' =
          [IdleSession EXCEPT
              !.pc = "lookup", !.account = account, !.verifyToken = verifyToken,
              !.before = store,
              !.earlier = IF session.pc = "returned"
                          THEN [account |-> session.account, token |-> session.result]
                          ELSE [account |-> session.account, token |-> NoToken]]
    /\ UNCHANGED <<now, calls, store, clock, command>>

\* const token = await keytar.getPassword(...); if (token) ... (lines 63-67)
AfterLookup(s, token) ==
    IF token # NoToken
    THEN IF s.verifyToken
         THEN [s EXCEPT !.pc = "probeStored", !.token = token, !.found = TRUE]
         ELSE [s EXCEPT !.pc = "returned", !.token = token, !.found = TRUE,
                        !.result = token]
    ELSE [s EXCEPT !.pc = "prompt"]

Lookup ==
    /\ session.pc = "lookup"
    /\ session' = AfterLookup(session, store[session.account])
    /\ UNCHANGED <<now, calls, store, clock, command>>

\* A variant of AfterStoredProbe that asks for a new token when the stored one is invalid.
AfterStoredProbeReprompts(s, o) ==
    LET probed == [s EXCEPT !.probes = @ + 1, !.probe = o, !.probed = s.token]
    IN  IF ~ProbeResolves(o)
        THEN [probed EXCEPT !.pc = "failed", !.error = "request failed"]
        ELSE IF ~isTokenValid(o)
        THEN [probed EXCEPT !.pc = "prompt"]
        ELSE [probed EXCEPT !.pc = "returned", !.result = s.token]

\* if (verifyToken && !(await isTokenValid(token))) throw ...; return token (lines 65-66)
AfterStoredProbe(s, o) ==
    LET probed == [s EXCEPT !.probes = @ + 1, !.probe = o, !.probed = s.token]
    IN  IF ~ProbeResolves(o)
        THEN [probed EXCEPT !.pc = "failed", !.error = "request failed"]
        ELSE IF ~isTokenValid(o)
        THEN [probed EXCEPT !.pc = "failed", !.error = "token is not valid"]
        ELSE [probed EXCEPT !.pc = "returned", !.result = s.token]

ProbeStored ==
    /\ session.pc = "probeStored"
    /\ \E o \in ProbeOutcomes : session' = AfterStoredProbe(session, o)
    /\ UNCHANGED <<now, calls, store, clock, command>>

\* A variant of AfterPrompt that validates the input whatever verifyToken says.
AfterPromptAlwaysProbes(s, input) ==
    [s EXCEPT !.prompts = @ + 1, !.input = input, !.pc = "probeInput"]

\* await inquirer.prompt(...) in promptForToken (lines 40-48, 50-57), then the
\* test of verifyToken in the while condition (line 49)
AfterPrompt(s, input) ==
    [s EXCEPT !.prompts = @ + 1, !.input = input,
              !.pc = IF s.verifyToken THEN "probeInput" ELSE "write"]

Prompt ==
    /\ session.pc = "prompt"
    /\ session.prompts < MaxPrompts
    /\ \E input \in Inputs : session' = AfterPrompt(session, input)
    /\ UNCHANGED <<now, calls, store, clock, command>>

\* while (verifyToken && !(await isTokenValid(input.token))) (line 49): a rejected
\* probe leaves promptForToken, and getSessionToken, with the request's error.
AfterInputProbe(s, o) ==
    LET probed == [s EXCEPT !.probes = @ + 1, !.probe = o, !.probed = s.input]
    IN  IF ~ProbeResolves(o)
        THEN [probed EXCEPT !.pc = "failed", !.error = "request failed"]
        ELSE IF ~isTokenValid(o)
        THEN [probed EXCEPT !.pc = "prompt"]
        ELSE [probed EXCEPT !.pc = "write"]

ProbeInput ==
    /\ session.pc = "probeInput"
    /\ \E o \in ProbeOutcomes : session' = AfterInputProbe(session, o)
    /\ UNCHANGED <<now, calls, store, clock, command>>

\* await keytar.setPassword(..., account, inputToken); return inputToken (lines 70-71)
Write ==
    /\ session.pc = "write"
    /\ store' = [store EXCEPT ![session.account] = session.input]
    /\ session' = [session EXCEPT !.writes = @ + 1, !.pc = "returned",
                                  !.result = session.input]
    /\ UNCHANGED <<now, calls, clock, command>>

InitBroker ==
    /\ now = RequestEpoch
    /\ calls = [c \in CallIds |-> IdleCall]
    /\ store \in [Accounts -> StoredTokens \cup {NoToken}]
    /\ session = IdleSession
    /\ clock = IdleClock
    /\ command = IdleCommand

NextBroker ==
    \/ \E account \in Accounts, verifyToken \in BOOLEAN :
          CallGetSessionToken(account, verifyToken)
    \/ Lookup
    \/ ProbeStored
    \/ Prompt
    \/ ProbeInput
    \/ Write

SpecBroker == InitBroker /\ [][NextBroker]_vars

InitRequest ==
    /\ now = RequestEpoch
    /\ calls = [c \in CallIds |-> IdleCall]
    /\ store = [a \in Accounts |-> NoToken]
    /\ session = IdleSession
    /\ clock = IdleClock
    /\ command = IdleCommand

\* One makeRequest call at a time: each call runs to its end before the next starts.
NextRequest ==
    \/ StartRequest(1)
    \/ Attempt(1)

SpecRequest == InitRequest /\ [][NextRequest]_vars

\* Two calls of makeRequest in flight at once: every call of CallIds starts once
\* and iterates, in any order, each for at most MaxInFlight attempts.
NextConcurrent ==
    \E c \in CallIds :
        \/ (calls[c].pc = "idle" /\ StartRequest(c))
        \/ (calls[c].attempts < MaxInFlight /\ Attempt(c))

SpecConcurrent == InitRequest /\ [][NextConcurrent]_vars

InitClock ==
    /\ now \in ClockInputs
    /\ calls = [c \in CallIds |-> IdleCall]
    /\ store = [a \in Accounts |-> NoToken]
    /\ session = IdleSession
    /\ clock = IdleClock
    /\ command = IdleCommand

NextClock ==
    \/ \E margin \in Margins : CallCurrentChallengeStartTime(margin)
    \/ CallNextChallengeStart
    \/ CallPrevChallengeStart
    \/ CallGetCurrentDay
    \/ Tick

SpecClock == InitClock /\ [][NextClock]_vars

InitCalendar ==
    /\ now = RequestEpoch
    /\ calls = [c \in CallIds |-> IdleCall]
    /\ store = [a \in Accounts |-> NoToken]
    /\ session = IdleSession
    /\ clock = IdleClock
    /\ command = IdleCommand

NextCalendar ==
    \/ \E year \in YearInputs, day \in DayInputs : CallChallengeStartTime(year, day)
    \/ \E day \in DayInputs, year \in YearInputs : CallValidateDayAndYear(day, year)

SpecCalendar == InitCalendar /\ [][NextCalendar]_vars

(***************************************************************************)
(* The claims about the pure calendar operations, under SpecCalendar.      *)
(***************************************************************************)

\* C12: for d in [1,25] and y >= 2015, getChallengeStartTime(y, d) is 05:00:00 UTC
\* on December d of year y; it is strictly increasing in d for a fixed y, and
\* getChallengeStartTime(y, 25) < getChallengeStartTime(y + 1, 1).
C12_ChallengeStartTimeIsReleaseInstant ==
    (/\ clock.op = "start"
     /\ clock.day >= 1 /\ clock.day <= 25
     /\ clock.year >= 2015) =>
        /\ getUTCFullYear(clock.result) = clock.year
        /\ getUTCMonth(clock.result) = 11
        /\ getUTCDate(clock.result) = clock.day
        /\ clock.result % 86400 = 5 * 3600
        /\ \A d \in 1 .. 25 :
              d > clock.day => clock.result < getChallengeStartTime(clock.year, d)
        /\ clock.day = 25 =>
              clock.result < getChallengeStartTime(clock.year + 1, 1)

\* C12's case: December 25 of 2015, which is 1451019600 seconds after the epoch.
C12_Witness ==
    /\ clock.op = "start"
    /\ clock.year = 2015
    /\ clock.day = 25
    /\ clock.result = 1451019600

\* C13: validateDayAndYear(day, year) fails exactly when day is outside [1,25] or
\* year < 2015, and a call of it touches neither the requests, nor the store, nor
\* the session (no network, store or prompt interaction).
C13_ValidationFailsExactlyOutOfRange ==
    /\ [](clock.op = "validate" =>
            (clock.threw <=> (clock.day < 1 \/ clock.day > 25 \/ clock.year < 2015)))
    /\ [][(clock' # clock /\ clock'.op = "validate") =>
            (calls' = calls /\ store' = store /\ session' = session)]_vars

\* C13's case: the first valid year and the last valid day pass.
C13_Witness ==
    /\ clock.op = "validate"
    /\ clock.day = 25
    /\ clock.year = 2015
    /\ ~clock.threw

(***************************************************************************)
(* The claims about the challenge clock, under SpecClock.                  *)
(***************************************************************************)

\* C7: getCurrentChallengeStartTime(margin) returns prevChallengeStart() exactly
\* when now lies within margin after it (0 <= now - prev < margin), and
\* nextChallengeStart() for every other now.
C7_CurrentIsPrevWithinMarginElseNext ==
    clock.op = "current" =>
        clock.result =
            IF 0 <= clock.at - clock.prev /\ clock.at - clock.prev < clock.margin
            THEN clock.prev
            ELSE clock.next

InitCommand ==
    /\ now = RequestEpoch
    /\ calls = [c \in CallIds |-> IdleCall]
    /\ store = [a \in Accounts |-> NoToken]
    /\ session = IdleSession
    /\ clock = IdleClock
    /\ \E input \in Commands, srcPath \in SrcPaths, cwd \in Cwds :
          command = [IdleCommand EXCEPT !.pc = "called", !.input = input,
                                        !.srcPath = srcPath, !.cwd = cwd]

NextCommand == CallBuildCommand

SpecCommand == InitCommand /\ [][NextCommand]_vars

\* The release instant of December `day` of `year`: 05:00:00 UTC, in seconds.
ReleaseInstant(year, day) ==
    DaysFromCivil(year, 11, 1) * 86400 + (day - 1) * 86400 + 5 * 3600

\* C11: nextChallengeStart() called one second before a release instant R
\* (December d, d in [1,25]) returns R; called one second after R, for d < 25, it
\* returns the release instant of December d + 1 of the same year.
C11_NextAroundReleaseInstant ==
    clock.op = "next" =>
        \A y \in Years, d \in 1 .. 25 :
            /\ clock.at = ReleaseInstant(y, d) - 1 =>
                  clock.result = ReleaseInstant(y, d)
            /\ (clock.at = ReleaseInstant(y, d) + 1 /\ d < 25) =>
                  clock.result = ReleaseInstant(y, d + 1)

\* C11's case: the call one second before December 1 05:00, which the clock
\* reaches from November.
C11_Witness ==
    /\ clock.op = "next"
    /\ clock.at = ReleaseInstant(LastYear, 1) - 1
    /\ clock.result = clock.at + 1

\* Midnight at the start of December 1 of `year`
SeasonStart(year) == ReleaseInstant(year, 1) - 5 * 3600

\* C14: getCurrentDay fails with an out-of-season error whenever the current UTC
\* date is outside December 1-25 (another month, or December 26-31), and otherwise
\* returns the current UTC day of the month, which is in [1,25].
C14_CurrentDayOnlyInSeason ==
    clock.op = "day" =>
        LET inSeason(y) ==
                SeasonStart(y) <= clock.at /\ clock.at < SeasonStart(y) + 25 * 86400
        IN  /\ clock.threw <=> ~(\E y \in Years : inSeason(y))
            /\ clock.threw =>
                  clock.message \in {"Advent of Code has not started yet",
                                     "Advent of Code is over"}
            /\ \A y \in Years :
                  inSeason(y) =>
                      /\ clock.result = (clock.at - SeasonStart(y)) \div 86400 + 1
                      /\ clock.result >= 1 /\ clock.result <= 25

\* C14's case: the last second of December 25 is still day 25.
C14_Witness ==
    /\ clock.op = "day"
    /\ clock.at = SeasonStart(LastYear) + 25 * 86400 - 1
    /\ ~clock.threw
    /\ clock.result = 25

\* The release instants of the years the clock is read in and of the year after.
ReleaseInstants == {ReleaseInstant(y, d) : y \in FirstYear .. LastYear + 1, d \in 1 .. 25}

\* C15: for every value of the clock, an instant equal to a release instant
\* included, nextChallengeStart() returns a release instant (05:00 UTC on a
\* December day in [1,25]), the earliest one strictly after now; once December 25
\* 05:00 has been reached the result is December 1 05:00 of the next year.
C15_NextIsEarliestReleaseAfterNow ==
    clock.op = "next" =>
        /\ clock.result \in ReleaseInstants
        /\ clock.result > clock.at
        /\ \A r \in ReleaseInstants : r > clock.at => clock.result <= r
        /\ \A y \in Years :
              (ReleaseInstant(y, 25) <= clock.at /\ clock.at < SeasonStart(y + 1)) =>
                  clock.result = ReleaseInstant(y + 1, 1)

\* C20: for December 1 05:00 UTC <= now <= December 25 05:00 UTC of the current
\* year, prevChallengeStart() <= now < nextChallengeStart(), and
\* nextChallengeStart() is exactly 24 hours after prevChallengeStart().
C20_PrevAndNextBracketNow ==
    (/\ clock.op = "current"
     /\ \E y \in Years :
           ReleaseInstant(y, 1) <= clock.at /\ clock.at <= ReleaseInstant(y, 25)) =>
        /\ clock.prev <= clock.at
        /\ clock.at < clock.next
        /\ clock.next = clock.prev + 24 * 3600

\* C20's case: at a release instant the previous start is now itself.
C20_Witness ==
    /\ clock.op = "current"
    /\ clock.at = ReleaseInstant(FirstYear, 13)
    /\ clock.prev = clock.at
    /\ clock.next = clock.at + 86400

(***************************************************************************)
(* The claims about buildCommand, under SpecCommand.                       *)
(***************************************************************************)
\* The names between braces that the template's pattern finds in s from position i on.
RECURSIVE PlaceholdersFrom(_, _)
PlaceholdersFrom(s, i) ==
    IF i > Len(s) THEN {}
    ELSE IF MatchesAt(s, i)
    THEN {SubSeq(s, i + 1, FirstClose(s, i + 1) - 1)}
             \cup PlaceholdersFrom(s, FirstClose(s, i + 1) + 1)
    ELSE PlaceholdersFrom(s, i + 1)

\* s with every "{src}" replaced by `path`, everything else as it is.
RECURSIVE WithSrc(_, _)
WithSrc(s, path) ==
    IF s = <<>> THEN <<>>
    ELSE IF Len(s) >= 5 /\ SubSeq(s, 1, 5) = <<"{">> \o Src \o <<"}">>
    THEN path \o WithSrc(SubSeq(s, 6, Len(s)), path)
    ELSE <<Head(s)>> \o WithSrc(Tail(s), path)

\* C5: for a command whose placeholders are all {src}, buildCommand raises no error
\* and returns the command with every {src} replaced by the path of srcPath
\* relative to the working directory ("echo {src}" gives "echo main.go").
C5_SrcPlaceholderIsReplaced ==
    (/\ command.pc = "done"
     /\ PlaceholdersFrom(command.input, 1) \subseteq {Src}) =>
        /\ ~command.threw
        /\ command.text =
              WithSrc(command.input, PathRelative(command.cwd, command.srcPath))

\* C6: for a command with a placeholder whose name is not a recognized variable,
\* buildCommand fails and the error names such a placeholder's variable name.
C6_UnknownVariableIsNamed ==
    (/\ command.pc = "done"
     /\ ~(PlaceholdersFrom(command.input, 1) \subseteq {Src})) =>
        /\ command.threw
        /\ command.text \in PlaceholdersFrom(command.input, 1) \ {Src}

(***************************************************************************)
(* The claims about makeRequest, under SpecRequest.                        *)
(***************************************************************************)

\* C1: an attempt whose response has a status in [300,500) makes the call fail at
\* once with the response body as the error message, and no warning is emitted
\* for it (no retry follows).
C1_RefusedStatusFailsAtOnce ==
    \A c \in CallIds :
        Refused(calls[c].outcome) =>
            /\ calls[c].pc = "failed"
            /\ calls[c].error = calls[c].outcome.body
            /\ ~calls[c].warned

\* C2: every attempt after the first is issued no earlier than the backoff
\* duration (currentWait as the loop head found it) after the attempt before it.
C2_AttemptsWaitForBackoff ==
    \A c \in CallIds :
        calls[c].attempts >= 2 => calls[c].gap * 1000 >= calls[c].wanted

\* C3: when n retryable outcomes (transport failure or status >= 500) are followed
\* by a response with a status < 300, the call has returned that response's body
\* after exactly n + 1 attempts and exactly n warnings.
C3_RetriesThenReturnsBody ==
    \A c \in CallIds :
        (/\ calls[c].outcome.kind = "response"
         /\ calls[c].outcome.status < 300
         /\ ~calls[c].refused) =>
            /\ calls[c].pc = "returned"
            /\ calls[c].result = calls[c].outcome.body
            /\ calls[c].attempts = calls[c].retryable + 1
            /\ calls[c].warnings = calls[c].retryable

\* C3's case: three retryable outcomes, then 200 "ok".
C3_Witness ==
    /\ calls[1].pc = "returned"
    /\ calls[1].retryable = 3
    /\ calls[1].attempts = 4
    /\ calls[1].outcome = Response(200, "ok")
    /\ calls[1].result = "ok"

\* C4: currentWait stays within [BACKOFF_INITIAL, BACKOFF_MAX] while a call runs,
\* never decreases from one iteration to the next within a call, and every new
\* call starts with currentWait = BACKOFF_INITIAL and timeOfLastRequest = 0.
C4_BackoffBoundedMonotoneReset ==
    /\ [](\A c \in CallIds :
            calls[c].pc # "idle" =>
                /\ calls[c].currentWait >= BACKOFF_INITIAL
                /\ calls[c].currentWait <= BACKOFF_MAX)
    /\ [][\A c \in CallIds :
            /\ calls'[c].run = calls[c].run =>
                  calls'[c].currentWait >= calls[c].currentWait
            /\ calls'[c].run # calls[c].run =>
                  /\ calls'[c].currentWait = BACKOFF_INITIAL
                  /\ calls'[c].timeOfLastRequest = 0]_vars

\* C4's case: a second call, begun after a first one, has grown its backoff to the cap.
C4_Witness ==
    /\ calls[1].run = 2
    /\ calls[1].attempts > 1
    /\ calls[1].currentWait = BACKOFF_MAX
    /\ calls[1].wanted < BACKOFF_MAX

\* C16: a call terminates only by returning on a response with status < 300 or by
\* failing on a response with status in [300,500); it never terminates on a
\* transport failure or a status >= 500, and an attempt that yields a response
\* with status < 500 terminates it.
C16_TerminatesExactlyOnStatusBelow500 ==
    \A c \in CallIds :
        /\ calls[c].pc = "returned" =>
              calls[c].outcome.kind = "response" /\ calls[c].outcome.status < 300
        /\ calls[c].pc = "failed" =>
              /\ calls[c].outcome.kind = "response"
              /\ calls[c].outcome.status >= 300
              /\ calls[c].outcome.status < 500
        /\ (calls[c].outcome.kind = "transport" \/ calls[c].outcome.status >= 500) =>
              calls[c].pc = "loop"
        /\ (calls[c].outcome.kind = "response" /\ calls[c].outcome.status < 500) =>
              calls[c].pc \in {"returned", "failed"}

\* 1000 * 1.1^k capped at 30000, in whole milliseconds, the cap applied at each step
RECURSIVE ExpectedWait(_)
ExpectedWait(k) ==
    IF k = 0
    THEN 1000
    ELSE LET grown == (ExpectedWait(k - 1) * 11) \div 10
         IN  IF grown > 30000 THEN 30000 ELSE grown

RECURSIVE Power(_, _)
Power(base, k) == IF k = 0 THEN 1 ELSE base * Power(base, k - 1)

\* C18: the backoff is multiplied by 1.1 (capped at 30000 ms) before each attempt
\* is issued, the first included, so the k-th attempt of a call runs with
\* currentWait = min(1000 * 1.1^k, 30000) and a timeout of max(5000, currentWait):
\* 5000 ms until the backoff exceeds 5000 ms, and never more than 30000 ms.
C18_KthAttemptWaitAndTimeout ==
    \A c \in CallIds :
        calls[c].attempts >= 1 =>
            LET k == calls[c].attempts
            IN  /\ calls[c].wanted = ExpectedWait(k - 1)
                /\ calls[c].currentWait = ExpectedWait(k)
                /\ k <= 6 => calls[c].currentWait = (1000 * Power(11, k)) \div Power(10, k)
                /\ calls[c].timeout =
                      IF calls[c].currentWait > 5000 THEN calls[c].currentWait ELSE 5000
                /\ calls[c].timeout >= 5000
                /\ calls[c].timeout <= 30000

\* C18's case: the first attempt whose timeout is the backoff, not the floor.
C18_Witness ==
    /\ calls[1].attempts >= 1
    /\ calls[1].wanted <= 5000
    /\ calls[1].currentWait > 5000
    /\ calls[1].timeout = calls[1].currentWait

(***************************************************************************)
(* The claim about concurrent calls of makeRequest, under SpecConcurrent.  *)
(***************************************************************************)

\* C19: under every interleaving of the calls in flight, a step of one call leaves
\* the (timeOfLastRequest, currentWait) pair of every other call unchanged, and
\* each call's backoff is what its own attempts make it, as if it ran alone.
C19_CallsShareNoRetryState ==
    /\ [](\A c \in CallIds :
            calls[c].pc # "idle" =>
                /\ calls[c].currentWait = ExpectedWait(calls[c].attempts)
                /\ calls[c].timeOfLastRequest = 0)
    /\ [][\A c \in CallIds, other \in CallIds :
            (c # other /\ calls'[c] # calls[c]) =>
                /\ calls'[other].timeOfLastRequest = calls[other].timeOfLastRequest
                /\ calls'[other].currentWait = calls[other].currentWait]_vars

\* C19's case: two calls in flight, one two attempts in, the other one attempt in.
C19_Witness ==
    /\ calls[1].pc = "loop"
    /\ calls[2].pc = "loop"
    /\ calls[1].attempts = 2
    /\ calls[2].attempts = 1
    /\ calls[1].currentWait = 1210
    /\ calls[2].currentWait = 1100

(***************************************************************************)
(* The claims about getSessionToken, under SpecBroker.                     *)
(***************************************************************************)

\* C8: when the store holds a token for the account, the call prompts never and
\* writes never, the store stays as it was, and when verification is asked for and
\* the validator answers with an invalid status the call fails with
\* 'token is not valid'.
C8_FoundPathNeverPromptsNorWrites ==
    session.found =>
        /\ session.prompts = 0
        /\ session.writes = 0
        /\ store = session.before
        /\ (/\ session.verifyToken
            /\ session.probe.kind = "response"
            /\ session.probe.status >= 300) =>
               /\ session.pc = "failed"
               /\ session.error = "token is not valid"

\* C8's case: a stored token, verification asked for, the validator answers 401.
C8_Witness ==
    /\ session.found
    /\ session.verifyToken
    /\ session.probe = Response(401, NoText)
    /\ session.pc = "failed"
    /\ store[session.account] \in StoredTokens

\* C9: with no stored token and verifyToken false, a call that has returned has
\* prompted once, probed never and written once; the account now holds the
\* prompted token, which is the value returned; and the next call for that
\* account, finding it, returns it without a prompt.
C9_NotFoundPromptsOnceWritesOnce ==
    /\ (/\ session.pc = "returned"
        /\ ~session.found
        /\ ~session.verifyToken) =>
           /\ session.prompts = 1
           /\ session.probes = 0
           /\ session.writes = 1
           /\ session.result = session.input
           /\ store = [session.before EXCEPT ![session.account] = session.input]
    /\ (/\ session.pc = "returned"
        /\ session.earlier.token # NoToken
        /\ session.earlier.account = session.account) =>
           /\ session.result = session.earlier.token
           /\ session.prompts = 0

\* C9's case: a call found the token that the call before it prompted for and wrote.
C9_Witness ==
    /\ session.pc = "returned"
    /\ session.found
    /\ session.before["alice"] = " tokA "
    /\ session.account = "alice"
    /\ session.earlier = [account |-> "alice", token |-> " tokA "]

\* C10: on the not-found path with verification asked for the call never fails,
\* whatever the validator probe does.
C10_NotFoundVerifyNeverFails ==
    (~session.found /\ session.verifyToken) => session.pc # "failed"

\* C17: with verifyToken true, a token is written to the store or returned only if
\* the most recent probe was of that exact token and reported it valid (status
\* < 300); no token that failed validation or was never probed is persisted or
\* returned.
C17_VerifiedTokenWasProbedValid ==
    session.verifyToken =>
        LET valid == /\ session.probe.kind = "response"
                     /\ session.probe.status < 300
        IN  /\ session.pc = "returned" =>
                  /\ valid
                  /\ session.result # NoToken
                  /\ session.probed = session.result
            /\ \A a \in Accounts :
                  (session.writes > 0 \/ store[a] # session.before[a]) =>
                      /\ valid
                      /\ store[a] # session.before[a] =>
                            a = session.account /\ store[a] = session.probed

\* C17's case: a first input fails validation, the second passes and is stored.
C17_Witness ==
    /\ session.verifyToken
    /\ session.pc = "returned"
    /\ session.prompts = 2
    /\ session.writes = 1
    /\ session.probe = Response(299, NoText)
    /\ session.result = "tokB"
    /\ store[session.account] = "tokB"
    /\ session.before[session.account] = NoToken

====
